---- MODULE Spec2Model ----
(***************************************************************************)
(* Finite automata and right-regular grammars of main.py and               *)
(* visualization.py: string validation, determinism test, subset           *)
(* construction, grammar construction, derivation and the converters.      *)
(*                                                                         *)
(* A Python str is a sequence of one-character strings: "q0" is            *)
(* <<"q","0">>, so that indexing (rule[0]), slicing (rule[1:]), iteration  *)
(* over characters and membership of a character in a set of names behave  *)
(* as in the source.  A dict is a function whose DOMAIN is its key set.    *)
(* A list of right-hand sides is kept as the set of its elements: the      *)
(* source only iterates it and draws from it with random.choice.           *)
(***************************************************************************)
EXTENDS Integers, Sequences, FiniteSets, TLC

VARIABLES
    nfa,             \* the NDFA under work (create_variant_ndfa or a literal)
    pc,              \* position of the driver: "idle", "bfs", "built"
    alphabet_iter,   \* iteration order of the set self.alphabet
    queue,           \* convert_to_dfa: deque of state-sets still to expand
    visited,         \* convert_to_dfa: state-sets discovered
    state_mapping,   \* convert_to_dfa: state-set -> name
    counter,         \* convert_to_dfa: next free index
    dfa_transitions, \* convert_to_dfa: table under construction
    popped,          \* convert_to_dfa: state-sets taken from the queue, in order
    dfa,             \* the DFA-typed automaton last returned by a converter
    iter_first,      \* dfa: (state, symbol) -> next(iter(transitions[state][symbol]))
    input_str,       \* argument of the last validate_string call(s)
    ndfa_result,     \* outcome of NDFA.validate_string(input_str), or "unset"
    dfa_result,      \* outcome of DFA.validate_string(input_str), or "unset"
    det_on,          \* receiver of the last is_deterministic call: "none", "nfa", "dfa"
    det_result,      \* its outcome
    gram_args,       \* arguments of the last RegularGrammar(...) call
    gram_module,     \* the module whose RegularGrammar was called
    gram,            \* the grammar constructed, NoGrammar when none
    gpc,             \* grammar driver: "start", "raised", "ready", "converted"
    derive_pc,       \* derive_string: "none", "loop", "returned"
    current,         \* derive_string: the working string, then the result
    chomsky_type     \* <<n>> for the outcome n of the last classify_chomsky call

\* the locals of NDFA.convert_to_dfa
cvars == <<alphabet_iter, queue, visited, state_mapping, counter,
           dfa_transitions, popped>>

\* what the last calls left on display
rvars == <<input_str, ndfa_result, dfa_result, det_on, det_result>>

\* the grammar and its derivation
gvars == <<gram_args, gram_module, gram, gpc, derive_pc, current, chomsky_type>>

vars == <<nfa, pc, cvars, dfa, iter_first, rvars, gvars>>

----------------------------------------------------------------------------
(* Bounds *)

\* longest input string given to validate_string
MaxLen == 3

\* most right-hand sides in one production list of a grammar literal
MaxRules == 2

\* longest working string derive_string is followed to
MaxDerive == 3

----------------------------------------------------------------------------
(* Strings *)

Digits == <<"0", "1", "2", "3", "4", "5", "6", "7", "8", "9">>

RECURSIVE IntToStr(_)
\* str(n) for n >= 0, as formatted by an f-string
IntToStr(n) ==
    IF n < 10 THEN <<Digits[n + 1]>>
    ELSE IntToStr(n \div 10) \o <<Digits[(n % 10) + 1]>>

\* f"q{i}"
QName(i) == <<"q">> \o IntToStr(i)

\* all strings over the characters cs of length at most n
StringsUpTo(cs, n) == UNION {[1..k -> cs] : k \in 0..n}

\* a bool as stored in a result variable
PyBool(b) == IF b THEN "True" ELSE "False"

\* the enumerations of a finite set (the orders a for loop over it can take)
Orders(S) ==
    {o \in [1..Cardinality(S) -> S] : \A i, j \in DOMAIN o : i # j => o[i] # o[j]}

EmptyDict == [x \in {} |-> {}]

----------------------------------------------------------------------------
(* FiniteAutomaton *)

Automaton(states, alphabet, transitions, start_state, accept_states) ==
    [states |-> states, alphabet |-> alphabet, transitions |-> transitions,
     start_state |-> start_state, accept_states |-> accept_states]

NoAutomaton == Automaton({}, {}, EmptyDict, <<>>, {})

\* FiniteAutomaton.is_deterministic
is_deterministic(A) ==
    \A state \in A.states :
        state \in DOMAIN A.transitions =>
            \A symbol \in A.alphabet :
                /\ symbol \in DOMAIN A.transitions[state]
                /\ Cardinality(A.transitions[state][symbol]) = 1

DestinationsSingle(A, state, symbol) ==
    IF /\ state \in DOMAIN A.transitions
       /\ symbol \in DOMAIN A.transitions[state]
       /\ Cardinality(A.transitions[state][symbol]) = 1
    THEN A.transitions[state][symbol]
    ELSE {}

\* the destinations of state on symbol that the loops of NDFA read
Destinations(A, state, symbol) ==
    IF state \in DOMAIN A.transitions /\ symbol \in DOMAIN A.transitions[state]
    THEN A.transitions[state][symbol]
    ELSE {}

NextSubsetOne(A, subset, symbol) ==
    LET having == {state \in subset : Destinations(A, state, symbol) # {}}
    IN  IF having = {} THEN {}
        ELSE Destinations(A, CHOOSE state \in having : TRUE, symbol)

\* next_states / next_subset: the union over the members of a state-set
NextSubset(A, subset, symbol) ==
    UNION {Destinations(A, state, symbol) : state \in subset}

TransitionsAfterGet(A, subset, symbol) ==
    [state \in DOMAIN A.transitions \cup subset |->
        IF state \notin DOMAIN A.transitions THEN (symbol :> {})
        ELSE IF state \in subset /\ symbol \notin DOMAIN A.transitions[state]
        THEN (symbol :> {}) @@ A.transitions[state]
        ELSE A.transitions[state]]

\* self.transitions once the loop over the members of a state-set has read
\* their destinations on symbol: each read stands behind the two `in` tests,
\* and update() fills a set() of its own
TransitionsAfterRead(A, subset, symbol) == A.transitions

RECURSIVE NDFA_self(_, _, _)
\* the receiver as NDFA.validate_string leaves it
NDFA_self(A, current_states, s) ==
    IF s = <<>> THEN A
    ELSE LET char == <<Head(s)>>
             next_states == NextSubset(A, current_states, char)
             after == [A EXCEPT !.transitions =
                          TransitionsAfterRead(A, current_states, char)]
         IN  IF char \notin A.alphabet THEN A
             ELSE IF next_states = {} THEN after
             ELSE NDFA_self(after, next_states, Tail(s))

RECURSIVE NDFA_run(_, _, _)
\* the for loop and the final test of NDFA.validate_string
NDFA_run(A, current_states, s) ==
    IF s = <<>>
    THEN PyBool(\E state \in current_states : state \in A.accept_states)
    ELSE LET char == <<Head(s)>>
             next_states == NextSubset(A, current_states, char)
         IN  IF char \notin A.alphabet THEN "False"
             ELSE IF next_states = {} THEN "False"
             ELSE NDFA_run(A, next_states, Tail(s))

\* NDFA.validate_string
NDFA_validate_string(A, s) == NDFA_run(A, {A.start_state}, s)

RECURSIVE DFA_run_skip(_, _, _, _)
DFA_run_skip(A, first, current_state, s) ==
    IF s = <<>>
    THEN PyBool(current_state \in A.accept_states)
    ELSE LET char == <<Head(s)>>
         IN  IF char \notin A.alphabet
             THEN DFA_run_skip(A, first, current_state, Tail(s))
             ELSE IF \/ current_state \notin DOMAIN A.transitions
                     \/ char \notin DOMAIN A.transitions[current_state]
             THEN "False"
             ELSE IF A.transitions[current_state][char] = {}
             THEN "StopIteration"
             ELSE DFA_run_skip(A, first, first[<<current_state, char>>], Tail(s))

RECURSIVE DFA_run(_, _, _, _)
\* the for loop and the final test of DFA.validate_string; first gives, for
\* each (state, symbol), the element next(iter(...)) takes from the set
DFA_run(A, first, current_state, s) ==
    IF s = <<>>
    THEN PyBool(current_state \in A.accept_states)
    ELSE LET char == <<Head(s)>>
         IN  IF char \notin A.alphabet THEN "False"
             ELSE IF \/ current_state \notin DOMAIN A.transitions
                     \/ char \notin DOMAIN A.transitions[current_state]
             THEN "False"
             ELSE IF A.transitions[current_state][char] = {}
             THEN "StopIteration"
             ELSE DFA_run(A, first, first[<<current_state, char>>], Tail(s))

\* DFA.validate_string
DFA_validate_string(A, first, s) == DFA_run(A, first, A.start_state, s)

\* the (state, symbol) pairs of a table that hold at least one destination
Entries(A) ==
    {<<state, symbol>> \in
        UNION {{<<st, sy>> : sy \in DOMAIN A.transitions[st]} : st \in DOMAIN A.transitions} :
        A.transitions[state][symbol] # {}}

\* the ways iteration can order the destination sets of a table: one first
\* element for every non-empty set
FirstChoices(A) ==
    LET all == UNION {A.transitions[e[1]][e[2]] : e \in Entries(A)}
    IN  {f \in [Entries(A) -> all] : \A e \in Entries(A) : f[e] \in A.transitions[e[1]][e[2]]}

----------------------------------------------------------------------------
(* RegularGrammar *)

Grammar(non_terminals, terminals, productions, start) ==
    [non_terminals |-> non_terminals, terminals |-> terminals,
     productions |-> productions, start |-> start]

NoGrammar == Grammar({}, {}, EmptyDict, <<>>)

\* the two assertions on one right-hand side
ValidRule(g, rule) ==
    \/ rule = <<>>
    \/ /\ <<rule[1]>> \in g.terminals
       /\ Len(rule) > 1 => Tail(rule) \in g.non_terminals

\* RegularGrammar._validate_grammar of main.py: TRUE when no assertion fails
validate_grammar(g) ==
    /\ g.start \in g.non_terminals
    /\ g.terminals \cap g.non_terminals = {}
    /\ \A left \in DOMAIN g.productions :
        /\ left \in g.non_terminals
        /\ \A rule \in g.productions[left] : ValidRule(g, rule)

\* RegularGrammar.__init__: main.py validates, visualization.py only stores
Constructs(module, g) == module = "visualization" \/ validate_grammar(g)

\* any(symbol in self.non_terminals for symbol in current)
HasNonTerminal(g, cur) == \E pos \in DOMAIN cur : <<cur[pos]>> \in g.non_terminals

\* self.productions.get(symbol), None and the empty list alike
Options(g, symbol) ==
    IF symbol \in DOMAIN g.productions THEN g.productions[symbol] ELSE {}

\* the positions at which the for loop of derive_string would replace
ReplacePositions(g, cur) ==
    {pos \in DOMAIN cur :
        <<cur[pos]>> \in g.non_terminals /\ Options(g, <<cur[pos]>>) # {}}

\* the position the for loop stops at: the first one
ReplacePosition(g, cur) ==
    CHOOSE pos \in ReplacePositions(g, cur) :
        \A other \in ReplacePositions(g, cur) : pos <= other

\* current[:pos] + replacement + current[pos+1:], pos counted from 1
Replace(cur, pos, replacement) ==
    SubSeq(cur, 1, pos - 1) \o replacement \o SubSeq(cur, pos + 1, Len(cur))

FINAL == <<"F", "I", "N", "A", "L">>

\* the non-empty right-hand sides of source
NonEmptyRules(g, source) == {rule \in g.productions[source] : rule # <<>>}

GrammarTransitionsNoFinal(g) ==
    LET long(source) == {rule \in g.productions[source] : Len(rule) > 1}
    IN  [source \in {src \in DOMAIN g.productions : long(src) # {}} |->
            [symbol \in {<<rule[1]>> : rule \in long(source)} |->
                {Tail(rule) : rule \in {r \in long(source) : <<r[1]>> = symbol}}]]

\* the table RegularGrammar.convert_to_dfa fills: a key per source with a
\* non-empty rule, a key per first character, the targets added to its set
GrammarTransitions(g) ==
    [source \in {src \in DOMAIN g.productions : NonEmptyRules(g, src) # {}} |->
        [symbol \in {<<rule[1]>> : rule \in NonEmptyRules(g, source)} |->
            {IF Len(rule) = 1 THEN FINAL ELSE Tail(rule) :
                rule \in {r \in NonEmptyRules(g, source) : <<r[1]>> = symbol}}]]

Grammar_convert_to_dfa_no_final(g) ==
    Automaton(g.non_terminals, g.terminals, GrammarTransitions(g),
              g.start, {FINAL})

\* RegularGrammar.convert_to_dfa
Grammar_convert_to_dfa(g) ==
    Automaton(g.non_terminals \cup {FINAL}, g.terminals, GrammarTransitions(g),
              g.start, {FINAL})

\* f"S{i}"
SName(i) == <<"S">> \o IntToStr(i)

\* state_mapping of convert_to_regular_grammar for the order in which
\* enumerate(self.states) yields the states
GrammarStateMapping(order) ==
    [state \in {order[i] : i \in DOMAIN order} |->
        SName((CHOOSE i \in DOMAIN order : order[i] = state) - 1)]

RulesOfStateBoth(A, m, state) ==
    (IF state \in DOMAIN A.transitions
     THEN UNION {UNION {{symbol, symbol \o m[target]} :
                            target \in A.transitions[state][symbol]} :
                     symbol \in DOMAIN A.transitions[state]}
     ELSE {})
    \cup (IF state \in A.accept_states THEN {<<>>} ELSE {})

\* the right-hand sides appended for one state
RulesOfState(A, m, state) ==
    (IF state \in DOMAIN A.transitions
     THEN UNION {UNION {IF target \in A.accept_states
                        THEN {symbol, symbol \o m[target]}
                        ELSE {symbol \o m[target]} :
                            target \in A.transitions[state][symbol]} :
                     symbol \in DOMAIN A.transitions[state]}
     ELSE {})
    \cup (IF state \in A.accept_states THEN {<<>>} ELSE {})

\* the arguments FiniteAutomaton.convert_to_regular_grammar passes to
\* RegularGrammar
FA_grammar_args(A, order) ==
    LET m == GrammarStateMapping(order)
        keys == {state \in A.states : RulesOfState(A, m, state) # {}}
    IN  Grammar({m[state] : state \in A.states},
                A.alphabet,
                [left \in {m[state] : state \in keys} |->
                    RulesOfState(A, m, CHOOSE state \in keys : m[state] = left)],
                m[A.start_state])

is_valid_rule_pair(g, rule) ==
    /\ <<rule[1]>> \in g.terminals
    /\ Len(rule) > 1
    /\ Tail(rule) \in g.non_terminals

\* is_valid_rule of classify_chomsky, for a non-empty rule
is_valid_rule(g, rule) ==
    /\ <<rule[1]>> \in g.terminals
    /\ (Len(rule) = 1 \/ Tail(rule) \in g.non_terminals)

\* is_regular after the first pair of loops
is_regular(g) ==
    \A left \in DOMAIN g.productions :
        \A rule \in g.productions[left] : rule = <<>> \/ is_valid_rule(g, rule)

\* is_context_free after the second loop
is_context_free(g) ==
    \A left \in DOMAIN g.productions : Len(left) = 1 /\ left \in g.non_terminals

classify_chomsky_tiers(g) ==
    IF is_regular(g) THEN 3
    ELSE IF is_context_free(g) THEN 2
    ELSE IF \A left \in DOMAIN g.productions : left \in g.non_terminals THEN 1
    ELSE 0

\* RegularGrammar.classify_chomsky
classify_chomsky(g) ==
    IF is_regular(g) THEN 3
    ELSE IF is_context_free(g) THEN 2
    ELSE 0

----------------------------------------------------------------------------
(* NDFA.convert_to_dfa *)

RECURSIVE ExpandSymbolsNoGuard(_, _, _, _)
ExpandSymbolsNoGuard(A, current_subset, syms, acc) ==
    IF syms = <<>> THEN acc
    ELSE LET symbol == Head(syms)
             next_subset == NextSubset(A, current_subset, symbol)
             fresh == next_subset \notin acc.visited
             mapping == IF fresh
                        THEN (next_subset :> QName(acc.counter)) @@ acc.state_mapping
                        ELSE acc.state_mapping
         IN  ExpandSymbolsNoGuard(A, current_subset, Tail(syms),
                 [visited |-> acc.visited \cup {next_subset},
                  queue |-> IF fresh THEN Append(acc.queue, next_subset)
                            ELSE acc.queue,
                  state_mapping |-> mapping,
                  counter |-> IF fresh THEN acc.counter + 1 ELSE acc.counter,
                  row |-> (symbol :> {mapping[next_subset]}) @@ acc.row])

RECURSIVE ExpandSymbolsRequeue(_, _, _, _)
ExpandSymbolsRequeue(A, current_subset, syms, acc) ==
    IF syms = <<>> THEN acc
    ELSE LET symbol == Head(syms)
             next_subset == NextSubset(A, current_subset, symbol)
             fresh == \A i \in DOMAIN acc.queue : acc.queue[i] # next_subset
             mapping == IF fresh
                        THEN (next_subset :> QName(acc.counter)) @@ acc.state_mapping
                        ELSE acc.state_mapping
             after == [visited |-> acc.visited \cup {next_subset},
                       queue |-> IF fresh THEN Append(acc.queue, next_subset)
                                 ELSE acc.queue,
                       state_mapping |-> mapping,
                       counter |-> IF fresh THEN acc.counter + 1 ELSE acc.counter,
                       row |-> (symbol :> {mapping[next_subset]}) @@ acc.row]
         IN  ExpandSymbolsRequeue(A, current_subset, Tail(syms),
                 IF next_subset # {} THEN after ELSE acc)

RECURSIVE ExpandSymbolsSameName(_, _, _, _)
ExpandSymbolsSameName(A, current_subset, syms, acc) ==
    IF syms = <<>> THEN acc
    ELSE LET symbol == Head(syms)
             next_subset == NextSubset(A, current_subset, symbol)
             fresh == next_subset \notin acc.visited
             mapping == IF fresh
                        THEN (next_subset :> QName(acc.counter)) @@ acc.state_mapping
                        ELSE acc.state_mapping
             after == [visited |-> acc.visited \cup {next_subset},
                       queue |-> IF fresh THEN Append(acc.queue, next_subset)
                                 ELSE acc.queue,
                       state_mapping |-> mapping,
                       counter |-> acc.counter,
                       row |-> (symbol :> {mapping[next_subset]}) @@ acc.row]
         IN  ExpandSymbolsSameName(A, current_subset, Tail(syms),
                 IF next_subset # {} THEN after ELSE acc)

RECURSIVE ExpandSymbols(_, _, _, _)
\* the for loop over the alphabet for one popped state-set; syms is what is
\* left of the iteration, acc the locals the loop updates
ExpandSymbols(A, current_subset, syms, acc) ==
    IF syms = <<>> THEN acc
    ELSE LET symbol == Head(syms)
             next_subset == NextSubset(A, current_subset, symbol)
             fresh == next_subset \notin acc.visited
             mapping == IF fresh
                        THEN (next_subset :> QName(acc.counter)) @@ acc.state_mapping
                        ELSE acc.state_mapping
             after == [visited |-> acc.visited \cup {next_subset},
                       queue |-> IF fresh THEN Append(acc.queue, next_subset)
                                 ELSE acc.queue,
                       state_mapping |-> mapping,
                       counter |-> IF fresh THEN acc.counter + 1 ELSE acc.counter,
                       row |-> (symbol :> {mapping[next_subset]}) @@ acc.row]
         IN  ExpandSymbols(A, current_subset, Tail(syms),
                           IF next_subset # {} THEN after ELSE acc)

RECURSIVE SelfAfterSymbols(_, _, _)
\* the receiver after the for loop over the alphabet for one popped state-set
SelfAfterSymbols(A, current_subset, syms) ==
    IF syms = <<>> THEN A
    ELSE SelfAfterSymbols(
             [A EXCEPT !.transitions =
                 TransitionsAfterRead(A, current_subset, Head(syms))],
             current_subset, Tail(syms))

DfaAcceptStatesAll(A, subsets, mapping) ==
    {mapping[subset] : subset \in
        {v \in subsets : \A state \in v : state \in A.accept_states}}

\* dfa_accept_states
DfaAcceptStates(A, subsets, mapping) ==
    {mapping[subset] : subset \in
        {v \in subsets : \E state \in v : state \in A.accept_states}}

\* dfa_states
DfaStates(mapping) == {mapping[subset] : subset \in DOMAIN mapping}

\* no call is on display: the driver is back at its menu
AtMenu == ndfa_result = "unset" /\ dfa_result = "unset" /\ det_on = "none"

\* the locals before the while loop
ConvertStart ==
    /\ pc = "idle"
    /\ AtMenu
    /\ LET dfa_start == {nfa.start_state}
       IN  /\ queue' = <<dfa_start>>
           /\ visited' = {dfa_start}
           /\ dfa_transitions' = EmptyDict
           /\ state_mapping' = (dfa_start :> QName(0))
           /\ counter' = 1
    /\ popped' = <<>>
    /\ alphabet_iter' \in Orders(nfa.alphabet)
    /\ pc' = "bfs"
    /\ dfa' = NoAutomaton
    /\ iter_first' = EmptyDict
    /\ input_str' = <<>>
    /\ ndfa_result' = "unset"
    /\ dfa_result' = "unset"
    /\ det_on' = "none"
    /\ det_result' = "unset"
    /\ UNCHANGED <<nfa, gvars>>

\* one iteration of the while loop
BfsStep ==
    /\ pc = "bfs"
    /\ queue # <<>>
    /\ LET current_subset == Head(queue)
           current_dfa_state == state_mapping[current_subset]
           acc == ExpandSymbols(nfa, current_subset, alphabet_iter,
                                [visited |-> visited, queue |-> Tail(queue),
                                 state_mapping |-> state_mapping,
                                 counter |-> counter, row |-> EmptyDict])
       IN  /\ queue' = acc.queue
           /\ visited' = acc.visited
           /\ state_mapping' = acc.state_mapping
           /\ counter' = acc.counter
           /\ dfa_transitions' = (current_dfa_state :> acc.row) @@ dfa_transitions
           /\ popped' = Append(popped, current_subset)
    /\ nfa' = SelfAfterSymbols(nfa, Head(queue), alphabet_iter)
    /\ alphabet_iter' = alphabet_iter
    /\ UNCHANGED <<pc, dfa, iter_first, rvars, gvars>>

\* the code after the loop: accept states, states, the DFA returned
ConvertReturn ==
    /\ pc = "bfs"
    /\ queue = <<>>
    /\ dfa' = Automaton(DfaStates(state_mapping), nfa.alphabet, dfa_transitions,
                        state_mapping[{nfa.start_state}],
                        DfaAcceptStates(nfa, visited, state_mapping))
    /\ iter_first' \in FirstChoices(dfa')
    /\ pc' = "built"
    /\ UNCHANGED <<nfa, cvars, rvars, gvars>>

----------------------------------------------------------------------------
(* Calls of the operations on the automata at hand *)

\* the characters of the input strings tried on A: those of its one-character
\* symbols and one character outside every alphabet
InputChars(A) == {sym[1] : sym \in {x \in A.alphabet : Len(x) = 1}} \cup {"z"}

Inputs(A) == StringsUpTo(InputChars(A), MaxLen)

\* nfa.validate_string(s), once there is a DFA to try the same string on
ValidateNDFA ==
    /\ dfa # NoAutomaton
    /\ AtMenu
    /\ \E s \in Inputs(nfa) :
        /\ input_str' = s
        /\ ndfa_result' = NDFA_validate_string(nfa, s)
        /\ nfa' = NDFA_self(nfa, {nfa.start_state}, s)
    /\ dfa_result' = "unset"
    /\ det_on' = "none"
    /\ det_result' = "unset"
    /\ UNCHANGED <<pc, cvars, dfa, iter_first, gvars>>

\* dfa.validate_string(input_str), on the string last given to the NDFA
ValidateDFA ==
    /\ dfa # NoAutomaton
    /\ ndfa_result # "unset"
    /\ dfa_result = "unset"
    /\ dfa_result' = DFA_validate_string(dfa, iter_first, input_str)
    /\ UNCHANGED <<nfa, pc, cvars, dfa, iter_first, input_str, ndfa_result,
                   det_on, det_result, gvars>>

\* nfa.is_deterministic() or dfa.is_deterministic()
IsDeterministic ==
    /\ AtMenu
    /\ \/ /\ pc \in {"idle", "built"}
          /\ det_on' = "nfa"
          /\ det_result' = PyBool(is_deterministic(nfa))
       \/ /\ pc = "built"
          /\ det_on' = "dfa"
          /\ det_result' = PyBool(is_deterministic(dfa))
    /\ input_str' = <<>>
    /\ ndfa_result' = "unset"
    /\ dfa_result' = "unset"
    /\ UNCHANGED <<nfa, pc, cvars, dfa, iter_first, gvars>>

\* back to the menu: the outcome on display is dropped
Continue ==
    /\ pc \in {"idle", "built"}
    /\ ~AtMenu
    /\ input_str' = <<>>
    /\ ndfa_result' = "unset"
    /\ dfa_result' = "unset"
    /\ det_on' = "none"
    /\ det_result' = "unset"
    /\ UNCHANGED <<nfa, pc, cvars, dfa, iter_first, gvars>>

----------------------------------------------------------------------------
(* The automata the driver starts from *)

Q(i) == QName(i)

\* create_variant_ndfa
VariantNDFA ==
    Automaton({Q(0), Q(1), Q(2), Q(3)},
              {<<"a">>, <<"b">>, <<"c">>},
              (Q(0) :> (<<"a">> :> {Q(0), Q(1)})) @@
              (Q(1) :> ((<<"c">> :> {Q(1)}) @@ (<<"b">> :> {Q(2)}))) @@
              (Q(2) :> (<<"b">> :> {Q(3)})) @@
              (Q(3) :> (<<"a">> :> {Q(1)})),
              Q(0),
              {Q(2)})

\* the states and symbols of the literal automata
LitStates == {<<"s">>, <<"t">>}
LitAlphabet == {<<"a">>, <<"b">>}

\* every partial map symbol -> set of states, every partial map state -> such
LitRows == UNION {[D -> SUBSET LitStates] : D \in SUBSET LitAlphabet}
LitTables == UNION {[D -> LitRows] : D \in SUBSET LitStates}

\* NDFA(...) literals obeying the invariants of the data model: start and
\* accept states in states, destinations in states, symbol keys in alphabet;
\* each has an accept state
LitNDFAs ==
    {Automaton(LitStates, LitAlphabet, t, <<"s">>, acc) :
        t \in LitTables, acc \in (SUBSET LitStates) \ {{}}}

\* nothing converted, nothing on display
NoConversion ==
    /\ pc = "idle"
    /\ alphabet_iter = <<>>
    /\ queue = <<>>
    /\ visited = {}
    /\ state_mapping = EmptyDict
    /\ counter = 0
    /\ dfa_transitions = EmptyDict
    /\ popped = <<>>
    /\ dfa = NoAutomaton
    /\ iter_first = EmptyDict
    /\ input_str = <<>>
    /\ ndfa_result = "unset"
    /\ dfa_result = "unset"
    /\ det_on = "none"
    /\ det_result = "unset"

\* no grammar constructed
NoGrammarYet ==
    /\ gram_args = NoGrammar
    /\ gram_module = "none"
    /\ gram = NoGrammar
    /\ gpc = "start"
    /\ derive_pc = "none"
    /\ current = <<>>
    /\ chomsky_type = <<>>

Init ==
    /\ nfa \in LitNDFAs \cup {VariantNDFA}
    /\ NoConversion
    /\ NoGrammarYet

Next ==
    \/ ConvertStart
    \/ BfsStep
    \/ ConvertReturn
    \/ ValidateNDFA
    \/ ValidateDFA
    \/ IsDeterministic
    \/ Continue

\* an NDFA, its subset construction, and the calls on both automata
Spec == Init /\ [][Next]_vars

NextConvert ==
    \/ ConvertStart
    \/ BfsStep
    \/ ConvertReturn

\* convert_to_dfa alone; a call that has entered the while loop goes on
\* iterating as long as the queue holds a state-set
SpecConvert == Init /\ [][NextConvert]_vars /\ WF_vars(BfsStep)

----------------------------------------------------------------------------
(* Calls on grammars *)

\* RegularGrammar(...) of either module with the arguments g
Construct(module, g) ==
    /\ gpc = "start"
    /\ gram_args' = g
    /\ gram_module' = module
    /\ IF Constructs(module, g)
       THEN gram' = g /\ gpc' = "ready"
       ELSE gram' = NoGrammar /\ gpc' = "raised"
    /\ UNCHANGED <<nfa, pc, cvars, dfa, iter_first, rvars, derive_pc, current,
                   chomsky_type>>

\* derive_string up to the while loop
DeriveStart ==
    /\ gpc = "ready"
    /\ gram_module = "main"
    /\ derive_pc = "none"
    /\ current' = gram.start
    /\ derive_pc' = "loop"
    /\ UNCHANGED <<nfa, pc, cvars, dfa, iter_first, rvars, gram_args,
                   gram_module, gram, gpc, chomsky_type>>

\* one iteration of the while loop of derive_string: the for loop replaces
\* at the first position that has options, or runs through and replaces nothing
DeriveStep ==
    /\ derive_pc = "loop"
    /\ HasNonTerminal(gram, current)
    /\ IF ReplacePositions(gram, current) = {}
       THEN current' = current
       ELSE LET pos == ReplacePosition(gram, current)
            IN  \E replacement \in Options(gram, <<current[pos]>>) :
                    /\ Len(Replace(current, pos, replacement)) <= MaxDerive
                    /\ current' = Replace(current, pos, replacement)
    /\ UNCHANGED <<nfa, pc, cvars, dfa, iter_first, rvars, gram_args,
                   gram_module, gram, gpc, derive_pc, chomsky_type>>

\* the while condition is false: derive_string returns current
DeriveReturn ==
    /\ derive_pc = "loop"
    /\ ~HasNonTerminal(gram, current)
    /\ derive_pc' = "returned"
    /\ UNCHANGED <<nfa, pc, cvars, dfa, iter_first, rvars, gram_args,
                   gram_module, gram, gpc, current, chomsky_type>>

\* gram.convert_to_dfa()
GrammarToDFA ==
    /\ gpc = "ready"
    /\ derive_pc \in {"none", "returned"}
    /\ dfa' = Grammar_convert_to_dfa(gram)
    /\ iter_first' \in FirstChoices(dfa')
    /\ gpc' = "converted"
    /\ UNCHANGED <<nfa, pc, cvars, rvars, gram_args, gram_module, gram,
                   derive_pc, current, chomsky_type>>

\* dfa.validate_string(valid_string) on the string derive_string returned
ValidateDerived ==
    /\ gpc = "converted"
    /\ derive_pc = "returned"
    /\ dfa_result = "unset"
    /\ input_str' = current
    /\ dfa_result' = DFA_validate_string(dfa, iter_first, current)
    /\ UNCHANGED <<nfa, pc, cvars, dfa, iter_first, ndfa_result, det_on,
                   det_result, gvars>>

\* nfa.convert_to_regular_grammar(), the states enumerated in some order
ToGrammar ==
    /\ pc = "idle"
    /\ gpc = "start"
    /\ \E order \in Orders(nfa.states) :
        Construct("main", FA_grammar_args(nfa, order))

\* the original automaton validates a string once its grammar is a DFA again
ValidateOriginal ==
    /\ gpc = "converted"
    /\ ValidateNDFA

\* gram.classify_chomsky(); visualization.py has no such method
ClassifyChomsky ==
    /\ gpc \in {"ready", "converted"}
    /\ gram_module = "main"
    /\ derive_pc # "loop"
    /\ chomsky_type' = <<classify_chomsky(gram)>>
    /\ UNCHANGED <<nfa, pc, cvars, dfa, iter_first, rvars, gram_args,
                   gram_module, gram, gpc, derive_pc, current>>

\* dfa.validate_string(user_input)
ValidateInput ==
    /\ dfa # NoAutomaton
    /\ AtMenu
    /\ \E user_input \in Inputs(dfa) :
        /\ input_str' = user_input
        /\ dfa_result' = DFA_validate_string(dfa, iter_first, user_input)
    /\ UNCHANGED <<nfa, pc, cvars, dfa, iter_first, ndfa_result, det_on,
                   det_result, gvars>>

----------------------------------------------------------------------------
(* The grammars the driver starts from *)

S == <<"S">>
P == <<"P">>
a == <<"a">>
b == <<"b">>

SubsetsUpTo(set, n) == {x \in SUBSET set : Cardinality(x) <= n}

\* every productions dict with keys among lefts and lists drawn from rules
ProdMaps(lefts, rules) ==
    UNION {[D -> SubsetsUpTo(rules, MaxRules)] : D \in SUBSET lefts}

\* right-hand sides over one-character names, well-formed or not
LitRules == {<<>>, a, b, a \o S, a \o P, b \o P, S \o a}

\* literals with one-character non-terminals; some break an assertion
LitGrammars1 ==
    {Grammar(N, {a, b}, prods, st) :
        N \in {{S}, {S, P}, {S, a}}, prods \in ProdMaps({S, P}, LitRules),
        st \in {S, P}}

\* literals with the two-character non-terminals S0 and S1
LitGrammars2 ==
    {Grammar({SName(0), SName(1)}, {a, b}, prods, SName(0)) :
        prods \in ProdMaps({SName(0), SName(1)},
                           {<<>>, a, a \o SName(0), a \o SName(1)})}

LitGrammars == LitGrammars1 \cup LitGrammars2

InitGrammar ==
    /\ nfa = NoAutomaton
    /\ NoConversion
    /\ NoGrammarYet

\* RegularGrammar(...) of main.py or of visualization.py on a literal
ConstructLiteral ==
    /\ gpc = "start"
    /\ \E module \in {"main", "visualization"}, g \in LitGrammars :
            Construct(module, g)

NextGrammar ==
    \/ ConstructLiteral
    \/ DeriveStart
    \/ DeriveStep
    \/ DeriveReturn
    \/ GrammarToDFA
    \/ ValidateDerived

\* a grammar literal, its derivations and its DFA
SpecGrammar == InitGrammar /\ [][NextGrammar]_vars

\* grammar.productions[left] = rules by the holder of the dict that __init__
\* stored without copying it; followed once for each grammar
AssignProductions ==
    /\ gpc = "ready"
    /\ gram_module = "main"
    /\ gram = gram_args
    /\ \E left \in gram.non_terminals \cup {S, P},
          rules \in SubsetsUpTo(LitRules, MaxRules) :
            gram' = [gram EXCEPT !.productions = (left :> rules) @@ gram.productions]
    /\ chomsky_type' = <<>>
    /\ UNCHANGED <<nfa, pc, cvars, dfa, iter_first, rvars, gram_args,
                   gram_module, gpc, derive_pc, current>>

NextClassify ==
    \/ ConstructLiteral
    \/ AssignProductions
    \/ ClassifyChomsky

\* a grammar literal, a later change of its productions, its classification
SpecClassify == InitGrammar /\ [][NextClassify]_vars

NextToGrammar ==
    \/ ToGrammar
    \/ ClassifyChomsky

\* an automaton, deterministic or not, its regular grammar and the class
\* of that grammar
SpecToGrammar == Init /\ [][NextToGrammar]_vars

\* the deterministic literal automata and the variant NDFA
RoundAutomata == {A \in LitNDFAs : is_deterministic(A)} \cup {VariantNDFA}

InitRound ==
    /\ nfa \in RoundAutomata
    /\ NoConversion
    /\ NoGrammarYet

NextRound ==
    \/ ToGrammar
    \/ GrammarToDFA
    \/ ValidateOriginal
    \/ ValidateDFA
    \/ Continue

\* an automaton, its grammar, and the DFA of that grammar
SpecRound == InitRound /\ [][NextRound]_vars

\* the grammar literal of main
MainGrammar ==
    Grammar({S, P, <<"Q">>},
            {a, b, <<"c">>, <<"d">>, <<"e">>, <<"f">>},
            (S :> {a \o P, b \o <<"Q">>}) @@
            (P :> {b \o P, <<"c">> \o P, <<"d", "Q">>, <<"e">>}) @@
            (<<"Q">> :> {<<"e", "Q">>, <<"f", "Q">>, a}),
            S)

\* grammar = RegularGrammar(...) at the head of main
ConstructMain ==
    /\ pc = "idle"
    /\ Construct("main", MainGrammar)

\* option 6 of the menu, taken while no other grammar is at hand
MenuToGrammar == ToGrammar

\* option 5 of the menu, followed on the variant NDFA alone
MenuConvert ==
    /\ gpc = "start"
    /\ ConvertStart

InitMain ==
    /\ nfa = VariantNDFA
    /\ NoConversion
    /\ NoGrammarYet

NextMain ==
    \/ ConstructMain
    \/ MenuToGrammar
    \/ MenuConvert
    \/ BfsStep
    \/ ConvertReturn
    \/ ValidateNDFA
    \/ ValidateDFA
    \/ ValidateInput
    \/ IsDeterministic
    \/ Continue
    \/ DeriveStart
    \/ DeriveStep
    \/ DeriveReturn
    \/ GrammarToDFA
    \/ ValidateDerived
    \/ ClassifyChomsky

\* main: its grammar, the variant NDFA and the options of the menu
SpecMain == InitMain /\ [][NextMain]_vars

----------------------------------------------------------------------------
(* Claims on the NDFA, its subset construction and the validators *)

\* some character of s is no symbol of A's alphabet
HasInvalidSymbol(A, s) == \E i \in DOMAIN s : <<s[i]>> \notin A.alphabet

\* C1: language equivalence of the subset construction: once the NDFA has
\* been converted, NDFA.validate_string on the NDFA and DFA.validate_string
\* on the DFA returned by convert_to_dfa give the same boolean on the same
\* input string.
C1_LanguageEquivalence ==
    (pc = "built" /\ dfa_result # "unset") => dfa_result = ndfa_result

\* C1 witness: both validators accepted a string of two or more symbols on a
\* conversion that discovered a state-set of two NDFA states.
C1_Witness ==
    /\ pc = "built"
    /\ ndfa_result = "True"
    /\ dfa_result = "True"
    /\ Len(input_str) >= 2
    /\ \E subset \in visited : Cardinality(subset) = 2

\* C2: determinism round-trip: is_deterministic() on the DFA returned by
\* convert_to_dfa is always true.
C2_ConvertedIsDeterministic ==
    det_on = "dfa" => det_result = "True"

\* C9: invalid symbol rejection: a validate_string call, of the NDFA or of
\* the DFA, whose input holds a symbol outside the alphabet returns False
\* wherever the symbol stands, and a validation step changes neither
\* automaton, so that later validations are not affected.
C9_InvalidSymbolRejected ==
    /\ [](/\ (ndfa_result # "unset" /\ HasInvalidSymbol(nfa, input_str))
                => ndfa_result = "False"
          /\ (dfa_result # "unset" /\ HasInvalidSymbol(dfa, input_str))
                => dfa_result = "False")
    /\ [][(ndfa_result' # ndfa_result \/ dfa_result' # dfa_result)
            => (nfa' = nfa /\ dfa' = dfa /\ iter_first' = iter_first)]_vars

\* C9 witness: both validators rejected an input whose only invalid symbol is
\* the last one and whose prefix before it the NDFA accepts.
C9_Witness ==
    /\ pc = "built"
    /\ Len(input_str) >= 2
    /\ ~HasInvalidSymbol(nfa, SubSeq(input_str, 1, Len(input_str) - 1))
    /\ HasInvalidSymbol(nfa, input_str)
    /\ NDFA_validate_string(nfa, SubSeq(input_str, 1, Len(input_str) - 1)) = "True"
    /\ ndfa_result = "False"
    /\ dfa_result = "False"

\* a state with at least one outgoing transition, as C10 reads it: present in
\* the table with a non-empty symbol map
HasOutgoing(A, state) ==
    state \in DOMAIN A.transitions /\ DOMAIN A.transitions[state] # {}

\* the receiver of the last is_deterministic call
DetReceiver == IF det_on = "dfa" THEN dfa ELSE nfa

\* C10: is_deterministic returns true iff every state of states with at
\* least one outgoing transition has exactly one destination on every symbol
\* of the alphabet; a state absent from the table, or present with an empty
\* symbol map, is skipped.
C10_DeterministicIffTotalWhereDeclared ==
    det_on # "none" =>
        (det_result = "True" <=>
            \A state \in DetReceiver.states :
                HasOutgoing(DetReceiver, state) =>
                    \A symbol \in DetReceiver.alphabet :
                        /\ symbol \in DOMAIN DetReceiver.transitions[state]
                        /\ Cardinality(DetReceiver.transitions[state][symbol]) = 1)

----------------------------------------------------------------------------
(* Claims on grammars, derivation and the converters *)

\* C3: every string derive_string returns for a constructed grammar is
\* accepted by the DFA that convert_to_dfa returns for the same grammar.
C3_DerivedStringsAccepted ==
    (gpc = "converted" /\ derive_pc = "returned" /\ dfa_result # "unset")
        => dfa_result = "True"

\* C4: round trip of the converters: an automaton and the DFA of its regular
\* grammar give the same boolean on the same input string.
C4_RoundTripEquivalence ==
    (gpc = "converted" /\ ndfa_result # "unset" /\ dfa_result # "unset")
        => dfa_result = ndfa_result

\* C5: for the variant NDFA of create_variant_ndfa, the DFA of its regular
\* grammar accepts exactly the strings over {a, b, c} the NDFA accepts.
C5_VariantFidelity ==
    (/\ nfa = VariantNDFA
     /\ gpc = "converted"
     /\ ndfa_result # "unset"
     /\ dfa_result # "unset"
     /\ ~HasInvalidSymbol(nfa, input_str))
        => (dfa_result = "True" <=> ndfa_result = "True")

\* the while loop of derive_string is at a working string it cannot change
DeriveStalled ==
    /\ derive_pc = "loop"
    /\ HasNonTerminal(gram, current)
    /\ ReplacePositions(gram, current) = {}

\* C6: derive_string never hangs: it is never left iterating on a working
\* string whose non-terminals have no productions (it would have detected
\* the stall and left the loop).
C6_DeriveNeverStalls == ~DeriveStalled

\* name occurs in str as a contiguous substring
Occurs(name, str) ==
    \E i \in 1..(Len(str) - Len(name) + 1) :
        SubSeq(str, i, i + Len(name) - 1) = name

\* C7: the string derive_string returns consists of terminals only and holds
\* no non-terminal of the grammar, whatever the length of their names.
C7_DerivedIsTerminalOnly ==
    derive_pc = "returned" =>
        /\ \A i \in DOMAIN current : <<current[i]>> \in gram.terminals
        /\ \A name \in gram.non_terminals : ~Occurs(name, current)

\* the arguments break one of the rules of a Grammar value, as C8 lists them
Malformed(g) ==
    \/ g.start \notin g.non_terminals
    \/ g.terminals \cap g.non_terminals # {}
    \/ \E left \in DOMAIN g.productions : left \notin g.non_terminals
    \/ \E left \in DOMAIN g.productions :
        \E rule \in g.productions[left] :
            /\ rule # <<>>
            /\ \/ <<Head(rule)>> \notin g.terminals
               \/ Tail(rule) # <<>> /\ Tail(rule) \notin g.non_terminals

\* C8: constructing a RegularGrammar raises, and yields no grammar, when the
\* arguments are malformed, and succeeds with the grammar when they are not.
C8_ConstructionFailsFast ==
    gram_module # "none" =>
        IF Malformed(gram_args)
        THEN gpc = "raised" /\ gram = NoGrammar
        ELSE gpc # "raised" /\ gram = gram_args

----------------------------------------------------------------------------
(* Claims on the scenarios of main() *)

ab == a \o b
aab == a \o a \o b
ac == a \o <<"c">>

\* C11: the variant NDFA of create_variant_ndfa is reported not
\* deterministic by is_deterministic, and the DFA that convert_to_dfa returns
\* for it accepts "ab" and "aab" and rejects "" and "ac".
C11_VariantScenario ==
    nfa = VariantNDFA =>
        /\ det_on = "nfa" => det_result = "False"
        /\ (pc = "built" /\ dfa_result # "unset") =>
            /\ input_str \in {ab, aab} => dfa_result = "True"
            /\ input_str \in {<<>>, ac} => dfa_result = "False"

\* C11 witness: the DFA converted from the variant NDFA has accepted "aab".
C11_Witness ==
    /\ nfa = VariantNDFA
    /\ pc = "built"
    /\ input_str = aab
    /\ dfa_result = "True"

ae == a \o <<"e">>
az == a \o <<"z">>

\* C12: for the grammar literal of main (non-terminals S, P, Q, terminals
\* a..f), the DFA that convert_to_dfa returns accepts "ae", ending in FINAL,
\* and rejects "az" and "a".
C12_GrammarScenario ==
    (/\ gram = MainGrammar
     /\ gpc = "converted"
     /\ dfa_result # "unset") =>
        /\ input_str = ae =>
            /\ dfa_result = "True"
            /\ iter_first[<<iter_first[<<S, a>>], <<"e">>>>] = FINAL
        /\ input_str \in {az, a} => dfa_result = "False"

\* C12 witness: the DFA of main's grammar has accepted the input "ae".
C12_Witness ==
    /\ gram = MainGrammar
    /\ gpc = "converted"
    /\ derive_pc = "none"
    /\ input_str = ae
    /\ dfa_result = "True"

----------------------------------------------------------------------------
(* Claims on classify_chomsky *)

\* every right-hand side of g is empty, a single terminal, or a terminal
\* followed by exactly one declared non-terminal
RegularShape(g) ==
    \A left \in DOMAIN g.productions :
        \A rule \in g.productions[left] :
            \/ rule = <<>>
            \/ rule \in g.terminals
            \/ \E t \in g.terminals, n \in g.non_terminals : rule = t \o n

\* C13: classification stability: classify_chomsky returns 3 for every
\* grammar whose right-hand sides are all empty, a single terminal, or a
\* terminal followed by exactly one declared non-terminal, and so for every
\* grammar that passed construction and was not modified afterwards.
C13_ClassificationStability ==
    chomsky_type # <<>> =>
        /\ RegularShape(gram) => chomsky_type = <<3>>
        /\ gram = gram_args => chomsky_type = <<3>>

\* C13 witness: an unmodified grammar holding an empty rule, a rule of one
\* terminal and a rule of a terminal and a non-terminal was classified 3.
C13_Witness ==
    /\ chomsky_type = <<3>>
    /\ gram = gram_args
    /\ \E left \in DOMAIN gram.productions : <<>> \in gram.productions[left]
    /\ \E left \in DOMAIN gram.productions :
        \E rule \in gram.productions[left] : Len(rule) = 1
    /\ \E left \in DOMAIN gram.productions :
        \E rule \in gram.productions[left] : Len(rule) > 1

\* C14: classify_chomsky never returns 1 and never raises: for every grammar
\* value, those whose productions were changed after construction included,
\* the call returns, and what it returns is 0, 2 or 3.
C14_NeverTypeOne ==
    chomsky_type # <<>> => chomsky_type \in {<<0>>, <<2>>, <<3>>}

\* C14 witness: a grammar whose productions were changed after construction
\* so that a rule is not right-linear and a left-hand side is no single
\* declared non-terminal was classified 0.
C14_Witness ==
    /\ chomsky_type = <<0>>
    /\ gram # gram_args
    /\ ~RegularShape(gram)

----------------------------------------------------------------------------
(* Claims on the effects of the operations *)

\* C15: the operations are side-effect-free on their receivers:
\* validate_string, is_deterministic, both convert_to_dfa,
\* convert_to_regular_grammar, derive_string and classify_chomsky leave every
\* field of the automaton or grammar they are called on as it was, after any
\* sequence of such calls.
C15_ReceiversUnchanged ==
    [][/\ nfa' = nfa
       /\ dfa # NoAutomaton => dfa' = dfa
       /\ gram # NoGrammar => gram' = gram]_vars

\* C15 witness: the variant NDFA was converted to a grammar, the grammar was
\* classified, derived from and converted to a DFA, and both automata have
\* validated an input.
C15_Witness ==
    /\ nfa = VariantNDFA
    /\ gram # NoGrammar
    /\ gram # MainGrammar
    /\ gpc = "converted"
    /\ derive_pc = "returned"
    /\ chomsky_type # <<>>
    /\ ndfa_result # "unset"
    /\ dfa_result # "unset"
    /\ Len(input_str) >= 2

----------------------------------------------------------------------------
(* Claims on the course of NDFA.convert_to_dfa *)

\* C16: the subset construction terminates for every finite NDFA: the work
\* queue of convert_to_dfa eventually becomes empty, the empty set is never
\* discovered, and the number of discovered state-sets never exceeds
\* 2^|states| - 1.
C16_ConversionTerminates ==
    /\ [](pc # "idle" =>
            /\ {} \notin visited
            /\ Cardinality(visited) <= 2 ^ Cardinality(nfa.states) - 1)
    /\ (pc = "bfs" ~> queue = <<>>)

\* C16 witness: the queue has run empty on an NDFA of which every non-empty
\* set of states was discovered.
C16_Witness ==
    /\ pc = "bfs"
    /\ queue = <<>>
    /\ Len(popped) = 2 ^ Cardinality(nfa.states) - 1
    /\ visited = (SUBSET nfa.states) \ {{}}

\* the state-sets taken from the queue followed by those still in it
Enumerated == popped \o queue

\* C17: in convert_to_dfa each reachable state-set is enumerated exactly
\* once: a state-set is appended to the queue at most once, at the moment it
\* is first added to visited, every discovered set is popped and expanded
\* exactly once, and discovery is keyed by equality of the sets.
C17_EnumeratedOnce ==
    pc # "idle" =>
        /\ \A i, j \in DOMAIN Enumerated : i # j => Enumerated[i] # Enumerated[j]
        /\ {Enumerated[i] : i \in DOMAIN Enumerated} = visited
        /\ pc = "built" =>
            /\ queue = <<>>
            /\ Len(popped) = Cardinality(visited)

\* C17 witness: a conversion has returned in which a set of two states was
\* reached from two different state-sets and expanded once.
C17_Witness ==
    /\ pc = "built"
    /\ \E subset \in visited :
        /\ Cardinality(subset) = 2
        /\ Cardinality({i \in DOMAIN popped : popped[i] = subset}) = 1
        /\ Cardinality({from \in DOMAIN dfa_transitions :
                \E symbol \in DOMAIN dfa_transitions[from] :
                    dfa_transitions[from][symbol] = {state_mapping[subset]}}) >= 2

\* C18: the naming of convert_to_dfa is a total injective map: every
\* discovered state-set has one name, two distinct sets never share a name,
\* the names are q0..q(n-1) for n discovered sets, {start} is named q0 and is
\* the start state of the DFA, and the states of the DFA are exactly the
\* names assigned.
C18_NamingInjective ==
    pc # "idle" =>
        /\ DOMAIN state_mapping = visited
        /\ \A x, y \in visited : x # y => state_mapping[x] # state_mapping[y]
        /\ {state_mapping[x] : x \in visited}
                = {<<"q">> \o IntToStr(i) : i \in 0..(Cardinality(visited) - 1)}
        /\ state_mapping[{nfa.start_state}] = <<"q", "0">>
        /\ pc = "built" =>
            /\ dfa.start_state = <<"q", "0">>
            /\ dfa.states = {state_mapping[x] : x \in visited}

\* C18 witness: the conversion of the variant NDFA has returned a DFA with
\* the five states q0..q4.
C18_Witness ==
    /\ pc = "built"
    /\ nfa = VariantNDFA
    /\ Cardinality(dfa.states) = 5
    /\ <<"q", "4">> \in dfa.states

\* C19: in the DFA returned by convert_to_dfa a state is in accept_states
\* iff the state-set it names holds at least one accept state of the NDFA.
C19_AcceptIffIntersects ==
    pc = "built" =>
        /\ \A x \in visited :
            state_mapping[x] \in dfa.accept_states <=> x \cap nfa.accept_states # {}
        /\ dfa.accept_states \subseteq {state_mapping[x] : x \in visited}

\* C19 witness: a returned DFA has an accepting state naming a set of two
\* states of which one only is accepting, and a state that is not accepting.
C19_Witness ==
    /\ pc = "built"
    /\ \E x \in visited :
        /\ Cardinality(x) = 2
        /\ Cardinality(x \cap nfa.accept_states) = 1
        /\ state_mapping[x] \in dfa.accept_states
    /\ dfa.states # dfa.accept_states

\* the members of cur that have destinations on symbol in the table of the NDFA
Movers(cur, symbol) ==
    {m \in cur : m \in DOMAIN nfa.transitions /\ symbol \in DOMAIN nfa.transitions[m]}

\* the union of their destinations
Reached(cur, symbol) == UNION {nfa.transitions[m][symbol] : m \in Movers(cur, symbol)}

\* C20: in the DFA returned by convert_to_dfa, for every discovered set and
\* every symbol of the alphabet, with Next the union of the destinations of
\* the members of the set on the symbol: there is a transition from the name
\* of the set on the symbol, to the name of Next and to nothing else, iff
\* Next is not empty, and no entry iff Next is empty; every destination is a
\* state of the DFA and every symbol key is in the alphabet.
C20_TransitionsAreUnions ==
    pc = "built" =>
        /\ \A cur \in visited :
            /\ state_mapping[cur] \in DOMAIN dfa.transitions
            /\ DOMAIN dfa.transitions[state_mapping[cur]] \subseteq dfa.alphabet
            /\ \A symbol \in nfa.alphabet :
                IF Reached(cur, symbol) # {}
                THEN /\ Reached(cur, symbol) \in visited
                     /\ symbol \in DOMAIN dfa.transitions[state_mapping[cur]]
                     /\ dfa.transitions[state_mapping[cur]][symbol]
                            = {state_mapping[Reached(cur, symbol)]}
                ELSE symbol \notin DOMAIN dfa.transitions[state_mapping[cur]]
        /\ \A state \in DOMAIN dfa.transitions :
            \A symbol \in DOMAIN dfa.transitions[state] :
                dfa.transitions[state][symbol] \subseteq dfa.states

\* C20 witness: a returned DFA has a transition to the name of a set that
\* two members of the source set contributed different states to, and a
\* state without an entry for a symbol.
C20_Witness ==
    /\ pc = "built"
    /\ \E cur \in visited, symbol \in nfa.alphabet :
        /\ Cardinality(Movers(cur, symbol)) = 2
        /\ \A m \in Movers(cur, symbol) :
                nfa.transitions[m][symbol] # Reached(cur, symbol)
        /\ dfa.transitions[state_mapping[cur]][symbol]
                = {state_mapping[Reached(cur, symbol)]}
    /\ \E cur \in visited, symbol \in nfa.alphabet :
        symbol \notin DOMAIN dfa.transitions[state_mapping[cur]]

----------------------------------------------------------------------------
(* Claims on the converters between grammars and automata *)

\* the transitions of the table of A, as triples (source, symbol, target)
Triples(A) ==
    UNION {UNION {{<<source, symbol, target>> :
                        target \in A.transitions[source][symbol]} :
                    symbol \in DOMAIN A.transitions[source]} :
            source \in DOMAIN A.transitions}

\* the transitions the productions of g call for: (A, a, final) for a
\* production A -> a, (A, a, B) for a production A -> aB
Called(g, final) ==
    UNION {{<<left, <<Head(rule)>>, IF Len(rule) = 1 THEN final ELSE Tail(rule)>> :
                rule \in g.productions[left] \ {<<>>}} :
            left \in DOMAIN g.productions}

\* C21: RegularGrammar.convert_to_dfa builds exactly this automaton: the
\* states are the non-terminals and one synthetic final state, the alphabet
\* is the terminals, the start state is the start symbol, the accept states
\* are {final}; there is a transition A --a--> final iff A has the production
\* a, a transition A --a--> B iff A has the production aB, and no other:
\* empty productions add none.
C21_GrammarDfaShape ==
    gpc = "converted" =>
        LET final == <<"F", "I", "N", "A", "L">>
        IN  /\ final \notin gram.non_terminals
            /\ dfa.states = gram.non_terminals \cup {final}
            /\ dfa.alphabet = gram.terminals
            /\ dfa.start_state = gram.start
            /\ dfa.accept_states = {final}
            /\ Triples(dfa) = Called(gram, final)
            /\ \A source \in DOMAIN dfa.transitions :
                \A symbol \in DOMAIN dfa.transitions[source] :
                    dfa.transitions[source][symbol] # {}

\* C21 witness: a grammar holding an empty production, a production of one
\* terminal and a production of a terminal and a non-terminal was converted.
C21_Witness ==
    /\ gpc = "converted"
    /\ gram_module = "main"
    /\ \E left \in DOMAIN gram.productions : <<>> \in gram.productions[left]
    /\ \E t \in Triples(dfa) : t[3] = FINAL
    /\ \E t \in Triples(dfa) : t[3] \in gram.non_terminals

\* the one-to-one maps of the states of the automaton onto the
\* non-terminals of the grammar
Renamings ==
    {r \in [nfa.states -> gram.non_terminals] :
        /\ \A x, y \in nfa.states : x # y => r[x] # r[y]
        /\ {r[x] : x \in nfa.states} = gram.non_terminals}

\* the transitions (symbol, target) of state in the table of the automaton
Outgoing(state) ==
    IF state \in DOMAIN nfa.transitions
    THEN UNION {{<<symbol, target>> : target \in nfa.transitions[state][symbol]} :
                    symbol \in DOMAIN nfa.transitions[state]}
    ELSE {}

\* the productions C22 gives the non-terminal of state under the renaming r
Expected(r, state) ==
    {e[1] \o r[e[2]] : e \in Outgoing(state)}
    \cup {e[1] : e \in {o \in Outgoing(state) : o[2] \in nfa.accept_states}}
    \cup (IF state \in nfa.accept_states THEN {<<>>} ELSE {})

\* the productions the grammar holds for a non-terminal
Held(name) ==
    IF name \in DOMAIN gram.productions THEN gram.productions[name] ELSE {}

\* C22: convert_to_regular_grammar builds exactly these productions under a
\* bijective renaming of the states: for each transition S --a--> T the
\* non-terminal of S gets a followed by the non-terminal of T, and gets a
\* alone iff T is accepting; every accepting state gets the empty
\* production; the terminals are the alphabet, the start symbol is the
\* non-terminal of the start state; and the grammar passes the construction
\* of RegularGrammar.
C22_GrammarOfAutomaton ==
    gram_module # "none" =>
        /\ gpc # "raised"
        /\ gram = gram_args
        /\ gram.terminals = nfa.alphabet
        /\ DOMAIN gram.productions \subseteq gram.non_terminals
        /\ \E r \in Renamings :
            /\ gram.start = r[nfa.start_state]
            /\ \A state \in nfa.states : Held(r[state]) = Expected(r, state)

\* C22 witness: the variant NDFA, of which q0 has two destinations on a and
\* q1 a transition to the accept state, was converted to a grammar of four
\* non-terminals, and the grammar was classified.
C22_Witness ==
    /\ nfa = VariantNDFA
    /\ gpc = "ready"
    /\ Cardinality(gram.non_terminals) = 4
    /\ \E left \in DOMAIN gram.productions : <<"b">> \in gram.productions[left]
    /\ \E left \in DOMAIN gram.productions : <<>> \in gram.productions[left]
    /\ chomsky_type = <<3>>

----------------------------------------------------------------------------
(* Claims on the precedence of classify_chomsky and on DFA.validate_string *)

\* C23: precedence of classify_chomsky: when some production fails the
\* shape of Type 3, the result is 2 iff the left-hand side of every
\* production is a single declared non-terminal, whatever the length of its
\* name, and 0 otherwise.
C23_ClassifyPrecedence ==
    (chomsky_type # <<>> /\ ~RegularShape(gram)) =>
        IF \A left \in DOMAIN gram.productions : left \in gram.non_terminals
        THEN chomsky_type = <<2>>
        ELSE chomsky_type = <<0>>

\* some path of A from its start state spells s and ends in an accept state
SomePathAccepts(A, s) ==
    \E path \in [1..(Len(s) + 1) -> A.states] :
        /\ path[1] = A.start_state
        /\ path[Len(s) + 1] \in A.accept_states
        /\ \A i \in DOMAIN s :
            /\ path[i] \in DOMAIN A.transitions
            /\ <<s[i]>> \in DOMAIN A.transitions[path[i]]
            /\ path[i + 1] \in A.transitions[path[i]][<<s[i]>>]

\* C24: DFA.validate_string is a function of the automaton and the input:
\* on every automaton RegularGrammar.convert_to_dfa returns, those with two
\* or more destinations in an entry included, the result for an input is
\* true iff some path from the start state spelling the input ends in an
\* accept state, so that any two evaluations agree.
C24_ValidateFollowsSomePath ==
    (gpc = "converted" /\ dfa_result # "unset") =>
        (dfa_result = "True" <=> SomePathAccepts(dfa, input_str))

----------------------------------------------------------------------------
(* Claims on the loop of NDFA.convert_to_dfa *)

RECURSIVE StatesAfter(_, _)
\* the states of the NDFA reached from the members of cur by the word w
StatesAfter(cur, w) ==
    IF w = <<>> THEN cur
    ELSE StatesAfter(Reached(cur, Head(w)), Tail(w))

\* the words over the alphabet of the NDFA shorter than the number of
\* state-sets discovered
Words == UNION {[1..k -> nfa.alphabet] : k \in 0..(Cardinality(visited) - 1)}

\* C25: loop invariant of convert_to_dfa, at every iteration of the while
\* loop: every set in the queue is in visited; the domain of state_mapping
\* is visited; counter is the size of visited; no visited set is empty;
\* every visited set is a subset of the states of the NDFA and is the set
\* of states reached from the start state by some input string; every set
\* already popped has an entry in dfa_transitions.
C25_LoopInvariant ==
    pc = "bfs" =>
        /\ \A i \in DOMAIN queue : queue[i] \in visited
        /\ DOMAIN state_mapping = visited
        /\ counter = Cardinality(visited)
        /\ {} \notin visited
        /\ \A v \in visited :
            /\ v \subseteq nfa.states
            /\ \E w \in Words : StatesAfter({nfa.start_state}, w) = v
        /\ \A i \in DOMAIN popped :
            state_mapping[popped[i]] \in DOMAIN dfa_transitions

\* C25 witness: the loop on the variant NDFA stands between two iterations
\* with sets popped, a set still queued and a set of two states discovered.
C25_Witness ==
    /\ pc = "bfs"
    /\ nfa = VariantNDFA
    /\ Len(popped) >= 2
    /\ queue # <<>>
    /\ \E v \in visited : Cardinality(v) = 2

====
